---- MODULE Spec2Model ----
(***************************************************************************)
(* Model of the dumpling export writer (Writer, outputFileNamer) and of    *)
(* the retry loop it runs its chunk writing under.                         *)
(***************************************************************************)
EXTENDS Integers, Sequences, FiniteSets, TLC

VARIABLES
  conf,          \* *Config: [Rows, FileSize, tmplOK, canRebuild]
  w,             \* Writer fields: conn, receivedTaskCount, the two callbacks
  ctxDone,       \* w.ctx.Done() is closed
  taskStream,    \* ids of the tasks buffered on the channel given to run
  chanClosed,    \* the channel has been closed by the producer
  sentCount,     \* tasks sent so far (their ids are 1..sentCount)
  pc,            \* position of the goroutine executing run
  task,          \* the task run is handling
  handleErr,     \* value returned by handleTask for that task
  runResult,     \* value returned by run
  wtd,           \* locals of WriteTableData: retryTime, lastErr, conn, err
  backoffer,     \* attempts the backoffer has left
  ir,            \* the row source: started or not, and its calls in this attempt
  namer,         \* the outputFileNamer of the running attempt
  names,         \* names this namer instance has returned from NextName
  fileName,      \* local fileName of writeTableData
  fileWriter,    \* the intercept writer of the open file
  files,         \* external storage: data written under each name
  metaFiles,     \* external storage: meta files written
  opened,        \* files opened by the running WriteTableData, and what happened to each
  rebuilds,      \* rebuildConnFn calls of the running WriteTableData
  calls,         \* every callback invocation: site, function, task
  handled,       \* every finished handleTask call: task, error
  registered,    \* last function given to each setter
  selectSawDone, \* ctx was already done when the last select was entered
  lastConn,      \* the connection most recently obtained for the Writer
  session,       \* *sql.DB: the connections handed out and not closed
  ctl,           \* the ConsistencyController and the fields it holds
  blockList,     \* local blockList of ConsistencyLockDumpingTables.Setup
  stmts,         \* every statement executed on a consistency connection
  rets,          \* every returned call on the controller: op, error
  pool           \* sibling Writers on one channel: position, task, error

vars == <<conf, w, ctxDone, taskStream, chanClosed, sentCount, pc, task,
          handleErr, runResult, wtd, backoffer, ir, namer, names, fileName,
          fileWriter, files, metaFiles, opened, rebuilds, calls, handled,
          registered, selectSawDone, lastConn, session, ctl, blockList,
          stmts, rets, pool>>

-----------------------------------------------------------------------------
(* Bounds *)

MaxTasks == 2        \* tasks the producer sends
MaxChunks == 2       \* largest TotalChunks of a table
MaxAttempts == 2     \* attempts the chunk backoffer grants when it may retry
MaxFiles == 1        \* non-empty files the encoder writes in one attempt
MaxCalls == 4        \* NextName calls on one namer (namer specification)
MaxChunkIndex == 5   \* largest chunk index given to newOutputFileNamer there

(* Widths of the index formats *)
ChunkWidth == 9
FileWidth == 4

-----------------------------------------------------------------------------
(* fmt.Sprintf with the three formats of newOutputFileNamer.  A rendered   *)
(* number is the sequence of its decimal digits.                           *)

RECURSIVE Digits(_)
Digits(n) == IF n < 10 THEN <<n>> ELSE Digits(n \div 10) \o <<n % 10>>

\* %0<width>d: at least width digits, padded on the left with zeros
Pad(n, width) ==
  LET d == Digits(n)
  IN  IF Len(d) >= width THEN d ELSE [i \in 1..(width - Len(d)) |-> 0] \o d

Sprintf(format, a1, a2) ==
  CASE format = "%09d%04d" -> Pad(a1, ChunkWidth) \o Pad(a2, FileWidth)
    [] format = "%09[2]d"  -> Pad(a2, ChunkWidth)
    [] format = "%09[1]d"  -> Pad(a1, ChunkWidth)

-----------------------------------------------------------------------------
(* outputFileNamer *)

NoNamer == [ChunkIndex |-> 0, FileIndex |-> 0, DB |-> "", Table |-> "", format |-> ""]

FormatRowsFirst(rows, fileSize) ==
  IF rows THEN "%09[1]d"
  ELSE IF fileSize THEN "%09[2]d"
  ELSE "%09d%04d"

FormatOf(rows, fileSize) ==
  IF rows /\ fileSize THEN "%09d%04d"
  ELSE IF fileSize THEN "%09[2]d"
  ELSE "%09[1]d"

newOutputFileNamer(db, table, chunkIdx, rows, fileSize) ==
  [ChunkIndex |-> chunkIdx, FileIndex |-> 0, DB |-> db, Table |-> table,
   format |-> FormatOf(rows, fileSize)]

Index(n) == Sprintf(n.format, n.ChunkIndex, n.FileIndex)

\* The sub-templates of conf.OutputFileTemplate: schema, table, view, data.
OutputFileTemplate(n, subName) ==
  CASE subName = "schema" -> <<n.DB, "schema-create">>
    [] subName = "table"  -> <<n.DB, n.Table, "schema">>
    [] subName = "view"   -> <<n.DB, n.Table, "schema-view">>
    [] subName = "data"   -> <<n.DB, n.Table, Index(n)>>

\* render: (string, error); the empty name with an error when the template
\* cannot be executed.
render(n, tmplOK, subName) ==
  IF tmplOK THEN [name |-> OutputFileTemplate(n, subName), ok |-> TRUE]
  ELSE [name |-> <<>>, ok |-> FALSE]

NextNameNoAdvance(n, tmplOK, fileType) ==
  LET res == render(n, tmplOK, "data")
  IN  [namer |-> n, name |-> res.name \o <<fileType>>, ok |-> res.ok]

\* NextName: the name rendered from the current fields, then FileIndex++.
NextName(n, tmplOK, fileType) ==
  LET res == render(n, tmplOK, "data")
  IN  [namer |-> [n EXCEPT !.FileIndex = @ + 1],
       name  |-> res.name \o <<fileType>>,
       ok    |-> res.ok]

-----------------------------------------------------------------------------
(* Tasks, errors, connections *)

DB == "db"
Table == "tbl"
Extension == "sql"

MetaTypes == {"DatabaseMeta", "TableMeta", "ViewMeta"}

\* The task values a producer sends: the four variants of the type switch
\* and one task of a type the switch does not know.
TaskShapes ==
  {[type |-> t, ChunkIndex |-> 0, TotalChunks |-> 0] : t \in MetaTypes \cup {"Other"}}
  \cup {s \in [type : {"TableData"}, ChunkIndex : 0..(MaxChunks - 1),
               TotalChunks : 1..MaxChunks] : s.ChunkIndex < s.TotalChunks}

NoTask == [id |-> 0, type |-> "none", ChunkIndex |-> 0, TotalChunks |-> 0]

MkTask(id, shape) ==
  [id |-> id, type |-> shape.type, ChunkIndex |-> shape.ChunkIndex,
   TotalChunks |-> shape.TotalChunks]

Nil == [site |-> "nil", task |-> 0, attempt |-> 0]
Err(site, id, attempt) == [site |-> site, task |-> id, attempt |-> attempt]

NilConn == 0
FirstConn == 1
\* The connection the rebuild of this attempt of this task returns: a new
\* one each time.
FreshConn(id, attempt) == FirstConn + (id - 1) * MaxAttempts + attempt - 1

-----------------------------------------------------------------------------
(* Writer *)

NewWriter(c) ==
  [conn |-> c, receivedTaskCount |-> 0,
   finishTaskCallBack |-> "noop", finishTableCallBack |-> "noop"]

setFinishTaskCallBack(wr, fn) == [wr EXCEPT !.finishTaskCallBack = fn]

setFinishTableCallBack(wr, fn) == [wr EXCEPT !.finishTaskCallBack = fn]

NoWtd == [retryTime |-> 0, lastErr |-> Nil, conn |-> NilConn, err |-> Nil]
NoFileWriter == [name |-> <<>>, SomethingIsWritten |-> FALSE, open |-> FALSE]
NoIr == [started |-> FALSE, deferClose |-> FALSE, conn |-> NilConn,
         startCalled |-> FALSE, closeCalled |-> FALSE]

prodVars == <<taskStream, chanClosed, sentCount>>
chunkVars == <<wtd, backoffer, ir, namer, names, fileName, fileWriter>>
storeVars == <<files, metaFiles, opened>>
histVars == <<rebuilds, calls, handled, selectSawDone, lastConn>>
ctlVars == <<session, ctl, blockList, stmts, rets>>

NoSession == [handedOut |-> 0, open |-> {}]
NoController == [kind |-> "nil", serverType |-> "", conn |-> NilConn, allTables |-> {}]

\* The Writer after NewWriter, its context, its channel and the storage
InitWriter ==
  /\ w = NewWriter(FirstConn)
  /\ ctxDone = FALSE
  /\ taskStream = <<>>
  /\ chanClosed = FALSE
  /\ sentCount = 0
  /\ handleErr = Nil
  /\ runResult = Nil
  /\ wtd = NoWtd
  /\ backoffer = 0
  /\ ir = NoIr
  /\ fileName = <<>>
  /\ fileWriter = NoFileWriter
  /\ files = {}
  /\ metaFiles = {}
  /\ opened = <<>>
  /\ rebuilds = <<>>
  /\ calls = <<>>
  /\ handled = <<>>
  /\ registered = [task |-> "noop", table |-> "noop"]
  /\ selectSawDone = FALSE
  /\ lastConn = FirstConn
  /\ session = NoSession
  /\ ctl = NoController
  /\ blockList = {}
  /\ stmts = <<>>
  /\ rets = <<>>

Init ==
  /\ conf \in [Rows : BOOLEAN, FileSize : BOOLEAN, tmplOK : BOOLEAN, canRebuild : BOOLEAN]
  /\ pc = "new"
  /\ task = NoTask
  /\ namer = NoNamer
  /\ names = <<>>
  /\ pool = <<>>
  /\ InitWriter

(* The owner of the Writer registers callbacks before it starts run. *)
SetFinishTaskCallBack ==
  /\ pc = "new"
  /\ registered.task = "noop"
  /\ w' = setFinishTaskCallBack(w, "f")
  /\ registered' = [registered EXCEPT !.task = "f"]
  /\ UNCHANGED <<conf, ctxDone, pc, task, handleErr, runResult>>
  /\ UNCHANGED <<prodVars, chunkVars, storeVars, histVars>>
  /\ UNCHANGED <<ctlVars, pool>>

SetFinishTableCallBack ==
  /\ pc = "new"
  /\ registered.table = "noop"
  /\ w' = setFinishTableCallBack(w, "g")
  /\ registered' = [registered EXCEPT !.table = "g"]
  /\ UNCHANGED <<conf, ctxDone, pc, task, handleErr, runResult>>
  /\ UNCHANGED <<prodVars, chunkVars, storeVars, histVars>>
  /\ UNCHANGED <<ctlVars, pool>>

(* The producer and the owner of the context.  Nothing reads the value of  *)
(* a task before run receives it, so the channel holds the ids of the      *)
(* tasks in the order of the sends and the value is drawn at the receive.  *)
Send ==
  /\ ~chanClosed
  /\ sentCount < MaxTasks
  /\ taskStream' = Append(taskStream, sentCount + 1)
  /\ sentCount' = sentCount + 1
  /\ UNCHANGED <<conf, w, ctxDone, chanClosed, pc, task, handleErr, runResult, registered>>
  /\ UNCHANGED <<chunkVars, storeVars, histVars>>
  /\ UNCHANGED <<ctlVars, pool>>

CloseChan ==
  /\ ~chanClosed
  /\ chanClosed' = TRUE
  /\ UNCHANGED <<conf, w, ctxDone, taskStream, sentCount, pc, task, handleErr,
                 runResult, registered>>
  /\ UNCHANGED <<chunkVars, storeVars, histVars>>
  /\ UNCHANGED <<ctlVars, pool>>

Cancel ==
  /\ ~ctxDone
  /\ ctxDone' = TRUE
  /\ UNCHANGED <<conf, w, pc, task, handleErr, runResult, registered>>
  /\ UNCHANGED <<prodVars, chunkVars, storeVars, histVars>>
  /\ UNCHANGED <<ctlVars, pool>>

-----------------------------------------------------------------------------
(* Writer.run *)

Run ==
  /\ pc = "new"
  /\ pc' = "select"
  /\ UNCHANGED <<conf, w, ctxDone, task, handleErr, runResult, registered>>
  /\ UNCHANGED <<prodVars, chunkVars, storeVars, histVars>>
  /\ UNCHANGED <<ctlVars, pool>>

\* case <-w.ctx.Done(): return nil
SelectDone ==
  /\ pc = "select"
  /\ ctxDone
  /\ runResult' = Nil
  /\ pc' = "stopped"
  /\ selectSawDone' = TRUE
  /\ UNCHANGED <<conf, w, ctxDone, task, handleErr, registered>>
  /\ UNCHANGED <<prodVars, chunkVars, storeVars>>
  /\ UNCHANGED <<rebuilds, calls, handled, lastConn>>
  /\ UNCHANGED <<ctlVars, pool>>

RecvLast(stream) ==
  [id |-> stream[Len(stream)], rest |-> SubSeq(stream, 1, Len(stream) - 1)]

\* A channel delivers in the order of the sends.
Recv(stream) == [id |-> Head(stream), rest |-> Tail(stream)]

\* case task, ok := <-taskStream, with ok: receivedTaskCount++
SelectTask ==
  /\ pc = "select"
  /\ taskStream # <<>>
  /\ \E shape \in TaskShapes : task' = MkTask(Recv(taskStream).id, shape)
  /\ taskStream' = Recv(taskStream).rest
  /\ w' = [w EXCEPT !.receivedTaskCount = @ + 1]
  /\ selectSawDone' = ctxDone
  /\ pc' = "handleTask"
  /\ UNCHANGED <<conf, ctxDone, chanClosed, sentCount, handleErr, runResult, registered>>
  /\ UNCHANGED <<chunkVars, storeVars>>
  /\ UNCHANGED <<rebuilds, calls, handled, lastConn>>
  /\ UNCHANGED <<ctlVars, pool>>

\* case task, ok := <-taskStream, with !ok: return nil
SelectClosed ==
  /\ pc = "select"
  /\ taskStream = <<>>
  /\ chanClosed
  /\ runResult' = Nil
  /\ pc' = "stopped"
  /\ selectSawDone' = ctxDone
  /\ UNCHANGED <<conf, w, ctxDone, task, handleErr, registered>>
  /\ UNCHANGED <<prodVars, chunkVars, storeVars>>
  /\ UNCHANGED <<rebuilds, calls, handled, lastConn>>
  /\ UNCHANGED <<ctlVars, pool>>

-----------------------------------------------------------------------------
(* Writer.handleTask: the meta tasks and the unknown task *)

\* writeMetaToFile: buildFileWriter may fail (no file), WriteMeta may fail
\* (the file exists, incomplete), or the file is written.
MetaOutcomes == {"ok", "create", "write"}

MetaFile(name, o) ==
  IF o = "create" THEN {}
  ELSE {[name |-> name \o <<"sql">>, task |-> task.id, complete |-> (o = "ok")]}

MetaErr(o) == IF o = "ok" THEN Nil ELSE Err("meta", task.id, 0)

WriteDatabaseMeta ==
  /\ pc = "handleTask"
  /\ task.type = "DatabaseMeta"
  /\ LET r == render([NoNamer EXCEPT !.DB = DB], conf.tmplOK, "schema")
     IN  IF ~r.ok
         THEN /\ handleErr' = Err("render", task.id, 0)
              /\ UNCHANGED metaFiles
         ELSE \E o \in MetaOutcomes :
                /\ metaFiles' = metaFiles \cup MetaFile(r.name, o)
                /\ handleErr' = MetaErr(o)
  /\ pc' = "handled"
  /\ UNCHANGED <<conf, w, ctxDone, task, runResult, registered, files, opened>>
  /\ UNCHANGED <<prodVars, chunkVars, histVars>>
  /\ UNCHANGED <<ctlVars, pool>>

WriteTableMeta ==
  /\ pc = "handleTask"
  /\ task.type = "TableMeta"
  /\ LET r == render([NoNamer EXCEPT !.DB = DB, !.Table = Table], conf.tmplOK, "table")
     IN  IF ~r.ok
         THEN /\ handleErr' = Err("render", task.id, 0)
              /\ UNCHANGED metaFiles
         ELSE \E o \in MetaOutcomes :
                /\ metaFiles' = metaFiles \cup MetaFile(r.name, o)
                /\ handleErr' = MetaErr(o)
  /\ pc' = "handled"
  /\ UNCHANGED <<conf, w, ctxDone, task, runResult, registered, files, opened>>
  /\ UNCHANGED <<prodVars, chunkVars, histVars>>
  /\ UNCHANGED <<ctlVars, pool>>

\* Both names are rendered first; the view file is written only after the
\* table file has been written without error.
WriteViewMeta ==
  /\ pc = "handleTask"
  /\ task.type = "ViewMeta"
  /\ LET n  == [NoNamer EXCEPT !.DB = DB, !.Table = Table]
         rt == render(n, conf.tmplOK, "table")
         rv == render(n, conf.tmplOK, "view")
     IN  IF ~rt.ok \/ ~rv.ok
         THEN /\ handleErr' = Err("render", task.id, 0)
              /\ UNCHANGED metaFiles
         ELSE \E o1 \in MetaOutcomes, o2 \in MetaOutcomes :
                IF o1 # "ok"
                THEN /\ o2 = "ok"
                     /\ metaFiles' = metaFiles \cup MetaFile(rt.name, o1)
                     /\ handleErr' = MetaErr(o1)
                ELSE /\ metaFiles' = metaFiles \cup MetaFile(rt.name, o1)
                                       \cup MetaFile(rv.name, o2)
                     /\ handleErr' = MetaErr(o2)
  /\ pc' = "handled"
  /\ UNCHANGED <<conf, w, ctxDone, task, runResult, registered, files, opened>>
  /\ UNCHANGED <<prodVars, chunkVars, histVars>>
  /\ UNCHANGED <<ctlVars, pool>>

\* default: the task is logged and skipped
HandleUnsupported ==
  /\ pc = "handleTask"
  /\ task.type \notin MetaTypes \cup {"TableData"}
  /\ handleErr' = Nil
  /\ pc' = "handled"
  /\ UNCHANGED <<conf, w, ctxDone, task, runResult, registered>>
  /\ UNCHANGED <<prodVars, chunkVars, storeVars, histVars>>
  /\ UNCHANGED <<ctlVars, pool>>

-----------------------------------------------------------------------------
(* Writer.run after handleTask has returned *)

AfterHandleIgnoreErr(e) == "callback"

AfterHandle(e) == IF e # Nil THEN "return" ELSE "callback"

RunReturnErr ==
  /\ pc = "handled"
  /\ AfterHandle(handleErr) = "return"
  /\ handled' = Append(handled, [task |-> task, err |-> handleErr])
  /\ runResult' = handleErr
  /\ pc' = "stopped"
  /\ UNCHANGED <<conf, w, ctxDone, task, handleErr, registered>>
  /\ UNCHANGED <<prodVars, chunkVars, storeVars>>
  /\ UNCHANGED <<rebuilds, calls, selectSawDone, lastConn>>
  /\ UNCHANGED <<ctlVars, pool>>

RunFinishTask ==
  /\ pc = "handled"
  /\ AfterHandle(handleErr) = "callback"
  /\ handled' = Append(handled, [task |-> task, err |-> handleErr])
  /\ calls' = Append(calls, [site |-> "task", fn |-> w.finishTaskCallBack, task |-> task])
  /\ pc' = "select"
  /\ UNCHANGED <<conf, w, ctxDone, task, handleErr, runResult, registered>>
  /\ UNCHANGED <<prodVars, chunkVars, storeVars>>
  /\ UNCHANGED <<rebuilds, selectSawDone, lastConn>>
  /\ UNCHANGED <<ctlVars, pool>>

-----------------------------------------------------------------------------
(* Writer.WriteTableData under utils.WithRetry *)

\* newDumpChunkBackoffer(canRebuildConn(...)): one attempt when the
\* connection may not be rebuilt.
newDumpChunkBackoffer(shouldRetry) == IF shouldRetry THEN MaxAttempts ELSE 1

BeginWriteTableData ==
  /\ pc = "handleTask"
  /\ task.type = "TableData"
  /\ wtd' = [retryTime |-> 0, lastErr |-> Nil, conn |-> w.conn, err |-> Nil]
  /\ backoffer' = newDumpChunkBackoffer(conf.canRebuild)
  /\ pc' = "withRetry"
  /\ UNCHANGED <<conf, w, ctxDone, task, handleErr, runResult, registered>>
  /\ UNCHANGED <<ir, namer, names, fileName, fileWriter>>
  /\ UNCHANGED <<prodVars, storeVars, histVars>>
  /\ UNCHANGED <<ctlVars, pool>>

\* if retryTime > 1
NeedsRebuild(retryTime) == retryTime > 1

\* The attempt closure up to the rebuild: retryTime += 1, no rebuild.
AttemptFirst ==
  /\ pc = "withRetry"
  /\ backoffer > 0
  /\ ~NeedsRebuild(wtd.retryTime + 1)
  /\ wtd' = [wtd EXCEPT !.retryTime = @ + 1, !.err = Nil]
  /\ ir' = [ir EXCEPT !.deferClose = FALSE, !.startCalled = FALSE, !.closeCalled = FALSE]
  /\ pc' = "start"
  /\ UNCHANGED <<conf, w, ctxDone, task, handleErr, runResult, registered>>
  /\ UNCHANGED <<backoffer, namer, names, fileName, fileWriter>>
  /\ UNCHANGED <<prodVars, storeVars, histVars>>
  /\ UNCHANGED <<ctlVars, pool>>

\* The attempt closure up to the rebuild: retryTime += 1, then
\* conn, err = w.rebuildConnFn(conn), which returns a fresh connection or
\* no connection and an error.
AttemptRebuild ==
  /\ pc = "withRetry"
  /\ backoffer > 0
  /\ NeedsRebuild(wtd.retryTime + 1)
  /\ ir' = [ir EXCEPT !.deferClose = FALSE, !.startCalled = FALSE, !.closeCalled = FALSE]
  /\ \E ok \in BOOLEAN :
       LET res == IF ok THEN FreshConn(task.id, wtd.retryTime + 1) ELSE NilConn
       IN  /\ rebuilds' = Append(rebuilds,
                [task |-> task.id, attempt |-> wtd.retryTime + 1,
                 arg |-> wtd.conn, used |-> ir.conn, res |-> res])
           /\ lastConn' = IF ok THEN res ELSE lastConn
           /\ wtd' = [wtd EXCEPT !.retryTime = @ + 1, !.conn = res,
                        !.err = IF ok THEN Nil
                                ELSE Err("rebuild", task.id, wtd.retryTime + 1)]
           /\ pc' = IF ok THEN "start" ELSE "attemptReturn"
  /\ UNCHANGED <<conf, w, ctxDone, task, handleErr, runResult, registered>>
  /\ UNCHANGED <<backoffer, namer, names, fileName, fileWriter>>
  /\ UNCHANGED <<prodVars, storeVars>>
  /\ UNCHANGED <<calls, handled, selectSawDone>>
  /\ UNCHANGED <<ctlVars, pool>>

\* err = ir.Start(ctx, conn) fails: the closure returns before the defer of
\* ir.Close is reached.
IrStartFail ==
  /\ pc = "start"
  /\ wtd' = [wtd EXCEPT !.err = Err("start", task.id, wtd.retryTime)]
  /\ ir' = [ir EXCEPT !.startCalled = TRUE, !.conn = wtd.conn]
  /\ pc' = "attemptReturn"
  /\ UNCHANGED <<conf, w, ctxDone, task, handleErr, runResult, registered>>
  /\ UNCHANGED <<backoffer, namer, names, fileName, fileWriter>>
  /\ UNCHANGED <<prodVars, storeVars, histVars>>
  /\ UNCHANGED <<ctlVars, pool>>

\* ir.Start succeeds, ir.Close is deferred, and writeTableData builds its
\* namer and asks it for the first file name.
IrStartOk ==
  /\ pc = "start"
  /\ ir' = [ir EXCEPT !.started = TRUE, !.deferClose = TRUE,
                       !.startCalled = TRUE, !.conn = wtd.conn]
  /\ LET n == newOutputFileNamer(DB, Table, task.ChunkIndex, conf.Rows, conf.FileSize)
         r == NextName(n, conf.tmplOK, Extension)
     IN  /\ namer' = r.namer
         /\ names' = <<r.name>>
         /\ fileName' = r.name
         /\ wtd' = [wtd EXCEPT !.err = IF r.ok THEN Nil
                                      ELSE Err("render", task.id, wtd.retryTime)]
         /\ pc' = IF r.ok THEN "open" ELSE "attemptReturn"
  /\ UNCHANGED <<conf, w, ctxDone, task, handleErr, runResult, registered>>
  /\ UNCHANGED <<backoffer, fileWriter>>
  /\ UNCHANGED <<prodVars, storeVars, histVars>>
  /\ UNCHANGED <<ctlVars, pool>>

-----------------------------------------------------------------------------
(* Writer.writeTableData: the loop over the files of one attempt *)

\* fileWriter, tearDown := buildInterceptFileWriter(...)
OpenFile ==
  /\ pc = "open"
  /\ fileWriter' = [name |-> fileName, SomethingIsWritten |-> FALSE, open |-> TRUE]
  /\ opened' = Append(opened, [task |-> task.id, attempt |-> wtd.retryTime,
                               name |-> fileName, index |-> namer.FileIndex - 1,
                               encoded |-> FALSE, written |-> FALSE,
                               failed |-> FALSE, released |-> FALSE])
  /\ pc' = "writeInsert"
  /\ UNCHANGED <<conf, w, ctxDone, task, handleErr, runResult, registered>>
  /\ UNCHANGED <<wtd, backoffer, ir, namer, names, fileName>>
  /\ UNCHANGED <<files, metaFiles>>
  /\ UNCHANGED <<prodVars, histVars>>
  /\ UNCHANGED <<ctlVars, pool>>

\* err = format.WriteInsert(...): the encoder writes some bytes or none and
\* returns nil or an error.  It fills at most MaxFiles files of one attempt.
WriteInsert ==
  /\ pc = "writeInsert"
  /\ \E wrote \in BOOLEAN, ok \in BOOLEAN :
       /\ (wrote /\ ok) => namer.FileIndex <= MaxFiles
       /\ fileWriter' = [fileWriter EXCEPT !.SomethingIsWritten = wrote]
       /\ opened' = [opened EXCEPT ![Len(opened)].encoded = TRUE,
                                   ![Len(opened)].written = wrote,
                                   ![Len(opened)].failed = ~ok]
       /\ files' = IF wrote
                   THEN {f \in files : f.name # fileWriter.name}
                        \cup {[name |-> fileWriter.name, task |-> task.id,
                               attempt |-> wtd.retryTime]}
                   ELSE files
       /\ wtd' = [wtd EXCEPT !.err = IF ok THEN Nil
                                    ELSE Err("encode", task.id, wtd.retryTime)]
  /\ pc' = "tearDown"
  /\ UNCHANGED <<conf, w, ctxDone, task, handleErr, runResult, registered>>
  /\ UNCHANGED <<backoffer, ir, namer, names, fileName>>
  /\ UNCHANGED metaFiles
  /\ UNCHANGED <<prodVars, histVars>>
  /\ UNCHANGED <<ctlVars, pool>>

tearDownForgotten(fw) == fw

\* tearDown(ctx): the stream is flushed and closed; what it returns is
\* not looked at.
tearDown(fw) == [fw EXCEPT !.open = FALSE]

SplitIgnoreEmpty(e, written, fileSize) ==
  IF e # Nil THEN "return"
  ELSE IF ~fileSize THEN "break"
  ELSE "next"

SplitAlways(e, written, fileSize) ==
  IF e # Nil THEN "return"
  ELSE IF ~written THEN "break"
  ELSE "next"

\* What the loop does after tearDown: return err, break, or next file.
Split(e, written, fileSize) ==
  IF e # Nil THEN "return"
  ELSE IF ~written THEN "break"
  ELSE IF ~fileSize THEN "break"
  ELSE "next"

\* tearDown(ctx), then the loop ends (error, empty file, no size bound)
TearDownEnd ==
  /\ pc = "tearDown"
  /\ Split(wtd.err, fileWriter.SomethingIsWritten, conf.FileSize) # "next"
  /\ fileWriter' = tearDown(fileWriter)
  /\ opened' = [opened EXCEPT ![Len(opened)].released = ~fileWriter'.open]
  /\ pc' = "attemptReturn"
  /\ UNCHANGED <<conf, w, ctxDone, task, handleErr, runResult, registered>>
  /\ UNCHANGED <<wtd, backoffer, ir, namer, names, fileName>>
  /\ UNCHANGED <<files, metaFiles>>
  /\ UNCHANGED <<prodVars, histVars>>
  /\ UNCHANGED <<ctlVars, pool>>

\* tearDown(ctx), then fileName, err = namer.NextName(...)
TearDownNext ==
  /\ pc = "tearDown"
  /\ Split(wtd.err, fileWriter.SomethingIsWritten, conf.FileSize) = "next"
  /\ fileWriter' = tearDown(fileWriter)
  /\ opened' = [opened EXCEPT ![Len(opened)].released = ~fileWriter'.open]
  /\ LET r == NextName(namer, conf.tmplOK, Extension)
     IN  /\ namer' = r.namer
         /\ names' = Append(names, r.name)
         /\ fileName' = r.name
         /\ wtd' = [wtd EXCEPT !.err = IF r.ok THEN Nil
                                      ELSE Err("render", task.id, wtd.retryTime)]
         /\ pc' = IF r.ok THEN "open" ELSE "attemptReturn"
  /\ UNCHANGED <<conf, w, ctxDone, task, handleErr, runResult, registered>>
  /\ UNCHANGED <<backoffer, ir>>
  /\ UNCHANGED <<files, metaFiles>>
  /\ UNCHANGED <<prodVars, histVars>>
  /\ UNCHANGED <<ctlVars, pool>>

-----------------------------------------------------------------------------
(* The end of an attempt and utils.WithRetry *)

RunDeferredNoClose(r) == r

\* The deferred calls of the attempt closure, last deferred first:
\* ir.Close() if the closure got as far as deferring it.
RunDeferred(r) ==
  IF r.deferClose
  THEN [r EXCEPT !.started = FALSE, !.deferClose = FALSE, !.closeCalled = TRUE]
  ELSE r

\* The deferred calls run: ir.Close() if it was deferred, then lastErr = err.
\* The attempt returned nil: WithRetry returns nil.
AttemptReturnOk ==
  /\ pc = "attemptReturn"
  /\ wtd.err = Nil
  /\ ir' = RunDeferred(ir)
  /\ wtd' = [wtd EXCEPT !.lastErr = wtd.err]
  /\ pc' = "wtdReturn"
  /\ UNCHANGED <<conf, w, ctxDone, task, handleErr, runResult, registered>>
  /\ UNCHANGED <<backoffer, namer, names, fileName, fileWriter>>
  /\ UNCHANGED <<prodVars, storeVars, histVars>>
  /\ UNCHANGED <<ctlVars, pool>>

\* The attempt returned an error (the errorCount metric is incremented):
\* WithRetry waits for the backoff or for the context.
AttemptReturnErr ==
  /\ pc = "attemptReturn"
  /\ wtd.err # Nil
  /\ ir' = RunDeferred(ir)
  /\ wtd' = [wtd EXCEPT !.lastErr = wtd.err]
  /\ pc' = "backoff"
  /\ UNCHANGED <<conf, w, ctxDone, task, handleErr, runResult, registered>>
  /\ UNCHANGED <<backoffer, namer, names, fileName, fileWriter>>
  /\ UNCHANGED <<prodVars, storeVars>>
  /\ UNCHANGED <<rebuilds, calls, handled, selectSawDone, lastConn>>
  /\ UNCHANGED <<ctlVars, pool>>

\* The context is cancelled during the backoff: WithRetry returns the
\* cancellation error.
BackoffCancelled ==
  /\ pc = "backoff"
  /\ ctxDone
  /\ wtd' = [wtd EXCEPT !.err = Err("ctx", task.id, wtd.retryTime)]
  /\ pc' = "wtdReturn"
  /\ UNCHANGED <<conf, w, ctxDone, task, handleErr, runResult, registered>>
  /\ UNCHANGED <<backoffer, ir, namer, names, fileName, fileWriter>>
  /\ UNCHANGED <<prodVars, storeVars, histVars>>
  /\ UNCHANGED <<ctlVars, pool>>

\* The backoff elapses: one attempt less; with none left WithRetry returns
\* the error of the last attempt.
BackoffElapsed ==
  /\ pc = "backoff"
  /\ backoffer' = backoffer - 1
  /\ pc' = IF backoffer - 1 > 0 THEN "withRetry" ELSE "wtdReturn"
  /\ wtd' = [wtd EXCEPT !.err = wtd.lastErr]
  /\ UNCHANGED <<conf, w, ctxDone, task, handleErr, runResult, registered>>
  /\ UNCHANGED <<ir, namer, names, fileName, fileWriter>>
  /\ UNCHANGED <<prodVars, storeVars, histVars>>
  /\ UNCHANGED <<ctlVars, pool>>

-----------------------------------------------------------------------------
(* Writer.handleTask, case *TaskTableData, after WriteTableData returned *)

\* The locals of WriteTableData and the row source of the task go out of
\* scope; opened and rebuilds record the calls of one WriteTableData.
LeaveWriteTableData ==
  /\ wtd' = NoWtd
  /\ backoffer' = 0
  /\ ir' = NoIr
  /\ namer' = NoNamer
  /\ names' = <<>>
  /\ fileName' = <<>>
  /\ fileWriter' = NoFileWriter
  /\ opened' = <<>>
  /\ rebuilds' = <<>>

TableDataErr ==
  /\ pc = "wtdReturn"
  /\ wtd.err # Nil
  /\ handleErr' = wtd.err
  /\ pc' = "handled"
  /\ LeaveWriteTableData
  /\ UNCHANGED <<conf, w, ctxDone, task, runResult, registered>>
  /\ UNCHANGED <<files, metaFiles, calls, handled, selectSawDone, lastConn>>
  /\ UNCHANGED prodVars
  /\ UNCHANGED <<ctlVars, pool>>

\* if t.ChunkIndex+1 == t.TotalChunks
IsLastChunk(t) == t.ChunkIndex + 1 = t.TotalChunks

TableDataOk ==
  /\ pc = "wtdReturn"
  /\ wtd.err = Nil
  /\ calls' = IF IsLastChunk(task)
              THEN Append(calls, [site |-> "table", fn |-> w.finishTableCallBack,
                                  task |-> task])
              ELSE calls
  /\ handleErr' = Nil
  /\ pc' = "handled"
  /\ LeaveWriteTableData
  /\ UNCHANGED <<conf, w, ctxDone, task, runResult, registered>>
  /\ UNCHANGED <<files, metaFiles, handled, selectSawDone, lastConn>>
  /\ UNCHANGED prodVars
  /\ UNCHANGED <<ctlVars, pool>>

-----------------------------------------------------------------------------

Next ==
  \/ SetFinishTaskCallBack
  \/ SetFinishTableCallBack
  \/ Send
  \/ CloseChan
  \/ Cancel
  \/ Run
  \/ SelectDone
  \/ SelectTask
  \/ SelectClosed
  \/ WriteDatabaseMeta
  \/ WriteTableMeta
  \/ WriteViewMeta
  \/ HandleUnsupported
  \/ BeginWriteTableData
  \/ AttemptFirst
  \/ AttemptRebuild
  \/ IrStartFail
  \/ IrStartOk
  \/ OpenFile
  \/ WriteInsert
  \/ TearDownEnd
  \/ TearDownNext
  \/ AttemptReturnOk
  \/ AttemptReturnErr
  \/ BackoffCancelled
  \/ BackoffElapsed
  \/ TableDataErr
  \/ TableDataOk
  \/ RunReturnErr
  \/ RunFinishTask

Spec == Init /\ [][Next]_vars

-----------------------------------------------------------------------------
(* The namer alone: one namer built for any chunk index under any          *)
(* combination of the two switches, and NextName called on it repeatedly.  *)

InitNamer ==
  /\ conf \in [Rows : BOOLEAN, FileSize : BOOLEAN, tmplOK : BOOLEAN, canRebuild : {FALSE}]
  /\ pc = "namer"
  /\ \E chunkIdx \in 0..MaxChunkIndex :
       task = [id |-> 1, type |-> "TableData", ChunkIndex |-> chunkIdx,
               TotalChunks |-> MaxChunkIndex + 1]
  /\ namer = newOutputFileNamer(DB, Table, task.ChunkIndex, conf.Rows, conf.FileSize)
  /\ names = <<>>
  /\ pool = <<>>
  /\ InitWriter

CallNextName ==
  /\ pc = "namer"
  /\ Len(names) < MaxCalls
  /\ LET r == NextName(namer, conf.tmplOK, Extension)
     IN  /\ namer' = r.namer
         /\ names' = Append(names, r.name)
  /\ UNCHANGED <<conf, w, ctxDone, pc, task, handleErr, runResult, registered>>
  /\ UNCHANGED <<wtd, backoffer, ir, fileName, fileWriter>>
  /\ UNCHANGED <<prodVars, storeVars, histVars>>
  /\ UNCHANGED <<ctlVars, pool>>

NextNamer == CallNextName

SpecNamer == InitNamer /\ [][NextNamer]_vars

-----------------------------------------------------------------------------
(* consistency.go: the consistency controllers.  One controller is built   *)
(* for a configuration, Setup is called on it once, then PingContext and   *)
(* TearDown any number of times.                                           *)

consistencyTypeAuto == "auto"
consistencyTypeFlush == "flush"
consistencyTypeLock == "lock"
consistencyTypeSnapshot == "snapshot"
consistencyTypeNone == "none"

ServerTypeTiDB == "TiDB"
ServerTypes == {"MySQL", "MariaDB", ServerTypeTiDB}

\* Values of conf.Consistency: the five constants and a string that is none
ConsistencyOptions ==
  {consistencyTypeAuto, consistencyTypeFlush, consistencyTypeLock,
   consistencyTypeSnapshot, consistencyTypeNone, "bogus"}

\* conf.Tables
Tables == {"A", "B", "C"}

MaxCtlCalls == 5       \* calls made on one controller, its construction included
MaxLockAttempts == 2   \* attempts the lock-tables backoffer grants

ErrNil == "nil"
ErrConn == "session.Conn"
ErrSnapshot == "snapshot consistency is not supported for this server"
ErrInvalid == "invalid consistency option"
ErrFlushTiDB == "'flush table with read lock' cannot be used to ensure the consistency in TiDB"
ErrClosed == "consistency connection has already been closed"
ErrExec == "exec"
ErrConnDone == "sql: connection is already closed"
ErrCtx == "context canceled"

ConsistencyNone == [kind |-> "none", serverType |-> "", conn |-> NilConn, allTables |-> {}]

SwitchConsistencySnapshotAnywhere(c, conn) ==
  CASE c.Consistency = consistencyTypeFlush ->
         [ctl |-> [kind |-> "flush", serverType |-> c.ServerType, conn |-> conn,
                   allTables |-> {}],
          err |-> ErrNil]
    [] c.Consistency = consistencyTypeLock ->
         [ctl |-> [kind |-> "lock", serverType |-> "", conn |-> conn,
                   allTables |-> c.Tables],
          err |-> ErrNil]
    [] c.Consistency = consistencyTypeSnapshot ->
         [ctl |-> ConsistencyNone, err |-> ErrNil]
    [] c.Consistency = consistencyTypeNone ->
         [ctl |-> ConsistencyNone, err |-> ErrNil]
    [] OTHER -> [ctl |-> NoController, err |-> ErrInvalid]

\* switch conf.Consistency, with the connection already acquired
SwitchConsistency(c, conn) ==
  CASE c.Consistency = consistencyTypeFlush ->
         [ctl |-> [kind |-> "flush", serverType |-> c.ServerType, conn |-> conn,
                   allTables |-> {}],
          err |-> ErrNil]
    [] c.Consistency = consistencyTypeLock ->
         [ctl |-> [kind |-> "lock", serverType |-> "", conn |-> conn,
                   allTables |-> c.Tables],
          err |-> ErrNil]
    [] c.Consistency = consistencyTypeSnapshot ->
         IF c.ServerType # ServerTypeTiDB
         THEN [ctl |-> NoController, err |-> ErrSnapshot]
         ELSE [ctl |-> ConsistencyNone, err |-> ErrNil]
    [] c.Consistency = consistencyTypeNone ->
         [ctl |-> ConsistencyNone, err |-> ErrNil]
    [] OTHER -> [ctl |-> NoController, err |-> ErrInvalid]

writerVars == <<w, taskStream, chanClosed, sentCount, task, handleErr, runResult,
                wtd, ir, namer, names, fileName, fileWriter, files, metaFiles,
                opened, rebuilds, calls, handled, registered, selectSawDone,
                lastConn, pool>>

InitConsistency ==
  /\ conf \in [Consistency : ConsistencyOptions, ServerType : ServerTypes,
               Tables : {Tables}]
  /\ pc = "ctl.new"
  /\ task = NoTask
  /\ namer = NoNamer
  /\ names = <<>>
  /\ pool = <<>>
  /\ InitWriter

Ret(op, err) == [op |-> op, err |-> err]
Returned(op) == \E i \in 1..Len(rets) : rets[i].op = op

\* A statement executed on a connection: whether the connection was open
\* then, the tables it names, the table it failed on and its error.
Stmt(sql, conn, tables, failedTable, err) ==
  [sql |-> sql, conn |-> conn, open |-> conn \in session.open,
   tables |-> tables, blocked |-> blockList, failedTable |-> failedTable,
   err |-> err]

\* The results a statement can have on this connection
ExecResults(conn) == IF conn \in session.open THEN {ErrNil, ErrExec} ELSE {ErrConnDone}

\* conn, err := session.Conn(ctx), then the switch
NewConsistencyController ==
  /\ pc = "ctl.new"
  /\ \E ok \in BOOLEAN :
       IF ~ok
       THEN /\ rets' = Append(rets, Ret("New", ErrConn))
            /\ pc' = "ctl.failed"
            /\ UNCHANGED <<session, ctl>>
       ELSE LET conn == session.handedOut + 1
                r == SwitchConsistency(conf, conn)
            IN  /\ session' = [handedOut |-> conn, open |-> session.open \cup {conn}]
                /\ ctl' = r.ctl
                /\ rets' = Append(rets, Ret("New", r.err))
                /\ pc' = IF r.err = ErrNil THEN "ctl.ready" ELSE "ctl.failed"
  /\ UNCHANGED <<conf, ctxDone, backoffer, blockList, stmts>>
  /\ UNCHANGED writerVars

(* ConsistencyNone *)

NoneSetup ==
  /\ pc = "ctl.ready"
  /\ ctl.kind = "none"
  /\ ~Returned("Setup") /\ ~Returned("TearDown")
  /\ rets' = Append(rets, Ret("Setup", ErrNil))
  /\ UNCHANGED <<conf, pc, ctxDone, backoffer, session, ctl, blockList, stmts>>
  /\ UNCHANGED writerVars

NoneTearDown ==
  /\ pc = "ctl.ready"
  /\ ctl.kind = "none"
  /\ Len(rets) < MaxCtlCalls
  /\ rets' = Append(rets, Ret("TearDown", ErrNil))
  /\ UNCHANGED <<conf, pc, ctxDone, backoffer, session, ctl, blockList, stmts>>
  /\ UNCHANGED writerVars

NonePingContext ==
  /\ pc = "ctl.ready"
  /\ ctl.kind = "none"
  /\ Len(rets) < MaxCtlCalls
  /\ rets' = Append(rets, Ret("PingContext", ErrNil))
  /\ UNCHANGED <<conf, pc, ctxDone, backoffer, session, ctl, blockList, stmts>>
  /\ UNCHANGED writerVars

(* ConsistencyFlushTableWithReadLock *)

FlushSetupNoGuard(serverType) == FALSE

\* if c.serverType == ServerTypeTiDB
FlushSetupGuard(serverType) == serverType = ServerTypeTiDB

\* Setup: the error for TiDB, else FlushTableWithReadLock(ctx, c.conn)
FlushSetup ==
  /\ pc = "ctl.ready"
  /\ ctl.kind = "flush"
  /\ ~Returned("Setup") /\ ~Returned("TearDown")
  /\ IF FlushSetupGuard(ctl.serverType)
     THEN /\ rets' = Append(rets, Ret("Setup", ErrFlushTiDB))
          /\ UNCHANGED stmts
     ELSE \E res \in ExecResults(ctl.conn) :
            /\ stmts' = Append(stmts, Stmt("flush", ctl.conn, {}, "", res))
            /\ rets' = Append(rets, Ret("Setup", res))
  /\ UNCHANGED <<conf, pc, ctxDone, backoffer, session, ctl, blockList>>
  /\ UNCHANGED writerVars

closeOnly(c) == c

\* defer func() { c.conn.Close(); c.conn = nil }(): the field after it ran
closeAndForget(c) == [c EXCEPT !.conn = NilConn]

\* TearDown of the two controllers that hold a connection: nil when the
\* connection is gone, else UnlockTables on it, then it is closed.
TearDown(kind) ==
  /\ pc = "ctl.ready"
  /\ ctl.kind = kind
  /\ Len(rets) < MaxCtlCalls
  /\ IF ctl.conn = NilConn
     THEN /\ rets' = Append(rets, Ret("TearDown", ErrNil))
          /\ UNCHANGED <<session, ctl, stmts>>
     ELSE \E res \in ExecResults(ctl.conn) :
            /\ stmts' = Append(stmts, Stmt("unlock", ctl.conn, {}, "", res))
            /\ session' = [session EXCEPT !.open = @ \ {ctl.conn}]
            /\ ctl' = closeAndForget(ctl)
            /\ rets' = Append(rets, Ret("TearDown", res))
  /\ UNCHANGED <<conf, pc, ctxDone, backoffer, blockList>>
  /\ UNCHANGED writerVars

\* PingContext of the two controllers that hold a connection
PingContext(kind) ==
  /\ pc = "ctl.ready"
  /\ ctl.kind = kind
  /\ Len(rets) < MaxCtlCalls
  /\ IF ctl.conn = NilConn
     THEN /\ rets' = Append(rets, Ret("PingContext", ErrClosed))
          /\ UNCHANGED stmts
     ELSE \E res \in ExecResults(ctl.conn) :
            /\ stmts' = Append(stmts, Stmt("ping", ctl.conn, {}, "", res))
            /\ rets' = Append(rets, Ret("PingContext", res))
  /\ UNCHANGED <<conf, pc, ctxDone, backoffer, session, ctl, blockList>>
  /\ UNCHANGED writerVars

FlushTearDown == TearDown("flush")

FlushPingContext == PingContext("flush")

(* ConsistencyLockDumpingTables *)

\* buildLockTablesSQL: LOCK TABLES ... READ over the tables not on the
\* block list
buildLockTablesSQL(allTables, bl) == allTables \ bl

\* newLockTablesBackoffer(blockList): the attempts it grants
newLockTablesBackoffer == MaxLockAttempts

\* NextBackoff(err) of the lock-tables backoffer: a statement that failed on
\* one table puts that table on the block list and costs one attempt; any
\* other error ends the retrying.
lockTablesNextBackoff(attempts, bl, failedTable) ==
  IF failedTable # ""
  THEN [attempts |-> attempts - 1, blockList |-> bl \cup {failedTable}]
  ELSE [attempts |-> 0, blockList |-> bl]

freshBlockList(shared) == {}

\* The blockList the attempt closure reads: the one map made before
\* WithRetry, the same that was given to the backoffer.
capturedBlockList(shared) == shared

\* blockList := make(...), newLockTablesBackoffer(blockList), WithRetry
LockSetup ==
  /\ pc = "ctl.ready"
  /\ ctl.kind = "lock"
  /\ ~Returned("Setup") /\ ~Returned("TearDown")
  /\ blockList' = {}
  /\ backoffer' = newLockTablesBackoffer
  /\ pc' = "ctl.lockAttempt"
  /\ UNCHANGED <<conf, ctxDone, session, ctl, stmts, rets>>
  /\ UNCHANGED writerVars

\* One attempt: the lock statement is built and executed.  It succeeds, it
\* fails on one of the tables it names, or it fails otherwise; on an error
\* WithRetry asks the backoffer for the next backoff.
LockAttempt ==
  /\ pc = "ctl.lockAttempt"
  /\ LET locked == buildLockTablesSQL(ctl.allTables, capturedBlockList(blockList))
     IN  \/ /\ locked # {}
            /\ ctl.conn \in session.open
            /\ stmts' = Append(stmts, Stmt("lock", ctl.conn, locked, "", ErrNil))
            /\ rets' = Append(rets, Ret("Setup", ErrNil))
            /\ pc' = "ctl.ready"
            /\ UNCHANGED <<backoffer, blockList>>
         \/ \E t \in locked \cup {""} :
              LET nb == lockTablesNextBackoff(backoffer, blockList, t)
              IN  /\ stmts' = Append(stmts, Stmt("lock", ctl.conn, locked, t, ErrExec))
                  /\ backoffer' = nb.attempts
                  /\ blockList' = nb.blockList
                  /\ pc' = "ctl.lockBackoff"
                  /\ UNCHANGED rets
  /\ UNCHANGED <<conf, ctxDone, session, ctl>>
  /\ UNCHANGED writerVars

\* The context is cancelled during the backoff
LockBackoffCancelled ==
  /\ pc = "ctl.lockBackoff"
  /\ ctxDone
  /\ rets' = Append(rets, Ret("Setup", ErrCtx))
  /\ pc' = "ctl.ready"
  /\ UNCHANGED <<conf, ctxDone, backoffer, session, ctl, blockList, stmts>>
  /\ UNCHANGED writerVars

\* The backoff elapses: the next attempt, or the error when none is left
LockBackoffElapsed ==
  /\ pc = "ctl.lockBackoff"
  /\ IF backoffer > 0
     THEN pc' = "ctl.lockAttempt" /\ UNCHANGED rets
     ELSE pc' = "ctl.ready" /\ rets' = Append(rets, Ret("Setup", ErrExec))
  /\ UNCHANGED <<conf, ctxDone, backoffer, session, ctl, blockList, stmts>>
  /\ UNCHANGED writerVars

LockTearDown == TearDown("lock")

LockPingContext == PingContext("lock")

NextConsistency ==
  \/ NewConsistencyController
  \/ Cancel
  \/ NoneSetup
  \/ NoneTearDown
  \/ NonePingContext
  \/ FlushSetup
  \/ FlushTearDown
  \/ FlushPingContext
  \/ LockSetup
  \/ LockAttempt
  \/ LockBackoffCancelled
  \/ LockBackoffElapsed
  \/ LockTearDown
  \/ LockPingContext

SpecConsistency == InitConsistency /\ [][NextConsistency]_vars

-----------------------------------------------------------------------------
(* Several Writers running run on one channel, the chunks of one table     *)
(* sent to it in order.  Each Writer is at its select or handles the task  *)
(* it received; WriteTableData returns nil or an error.                    *)

MaxWriters == 2      \* sibling Writers

Writers == 1..MaxWriters

poolRest == <<conf, w, pc, task, handleErr, runResult, registered, rebuilds,
              selectSawDone, lastConn>>

InitPool ==
  /\ conf \in [Rows : BOOLEAN, FileSize : {FALSE}, tmplOK : {TRUE}, canRebuild : {FALSE}]
  /\ pc = "pool"
  /\ task = NoTask
  /\ namer = NoNamer
  /\ names = <<>>
  /\ pool = [wr \in Writers |-> [pc |-> "select", task |-> NoTask, err |-> Nil]]
  /\ InitWriter

\* The producer sends the chunks of the table in the order of their index.
PoolSend ==
  /\ ~chanClosed
  /\ sentCount < MaxChunks
  /\ taskStream' = Append(taskStream,
       MkTask(sentCount + 1, [type |-> "TableData", ChunkIndex |-> sentCount,
                              TotalChunks |-> MaxChunks]))
  /\ sentCount' = sentCount + 1
  /\ UNCHANGED <<ctxDone, chanClosed, calls, handled, pool>>
  /\ UNCHANGED <<poolRest, chunkVars, storeVars, ctlVars>>

\* run of Writer wr, case <-w.ctx.Done(): return nil
PoolSelectDone(wr) ==
  /\ pool[wr].pc = "select"
  /\ ctxDone
  /\ pool' = [pool EXCEPT ![wr].pc = "stopped"]
  /\ UNCHANGED <<ctxDone, calls, handled>>
  /\ UNCHANGED <<poolRest, prodVars, chunkVars, storeVars, ctlVars>>

\* run of Writer wr, case task, ok := <-taskStream; the channel holds the
\* task values here, and the Writer keeps the one it received
PoolSelectTask(wr) ==
  /\ pool[wr].pc = "select"
  /\ taskStream # <<>>
  /\ pool' = [pool EXCEPT ![wr].pc = "handleTask", ![wr].task = Recv(taskStream).id]
  /\ taskStream' = Recv(taskStream).rest
  /\ UNCHANGED <<ctxDone, chanClosed, sentCount, calls, handled>>
  /\ UNCHANGED <<poolRest, chunkVars, storeVars, ctlVars>>

\* run of Writer wr, the channel is closed and empty: return nil
PoolSelectClosed(wr) ==
  /\ pool[wr].pc = "select"
  /\ taskStream = <<>>
  /\ chanClosed
  /\ pool' = [pool EXCEPT ![wr].pc = "stopped"]
  /\ UNCHANGED <<ctxDone, calls, handled>>
  /\ UNCHANGED <<poolRest, prodVars, chunkVars, storeVars, ctlVars>>

\* The chunk indices written without error so far, by any Writer
ChunksWritten == {handled[i].task.ChunkIndex : i \in {j \in 1..Len(handled) : handled[j].err = Nil}}

\* handleTask of Writer wr on its *TaskTableData, and run after it: the
\* error stops this Writer; on success the table callback is invoked for a
\* last chunk, then the task callback.
PoolHandleTask(wr) ==
  /\ pool[wr].pc = "handleTask"
  /\ \E ok \in BOOLEAN :
       LET t == pool[wr].task
           e == IF ok THEN Nil ELSE Err("writeTableData", t.id, 0)
           done == IF ok THEN ChunksWritten \cup {t.ChunkIndex} ELSE ChunksWritten
           tableCall == IF ok /\ IsLastChunk(t)
                        THEN <<[site |-> "table", fn |-> w.finishTableCallBack,
                                task |-> t, writer |-> wr, written |-> done]>>
                        ELSE <<>>
           taskCall == IF AfterHandle(e) = "callback"
                       THEN <<[site |-> "task", fn |-> w.finishTaskCallBack,
                               task |-> t, writer |-> wr, written |-> done]>>
                       ELSE <<>>
       IN  /\ handled' = Append(handled, [task |-> t, err |-> e])
           /\ calls' = calls \o tableCall \o taskCall
           /\ pool' = [pool EXCEPT ![wr].pc = IF AfterHandle(e) = "return"
                                               THEN "stopped" ELSE "select",
                                    ![wr].err = e]
  /\ UNCHANGED ctxDone
  /\ UNCHANGED <<poolRest, prodVars, chunkVars, storeVars, ctlVars>>

NextPool ==
  \/ PoolSend
  \/ CloseChan
  \/ Cancel
  \/ \E wr \in Writers : PoolSelectDone(wr)
  \/ \E wr \in Writers : PoolSelectTask(wr)
  \/ \E wr \in Writers : PoolSelectClosed(wr)
  \/ \E wr \in Writers : PoolHandleTask(wr)

SpecPool == InitPool /\ [][NextPool]_vars

-----------------------------------------------------------------------------
(* What the histories say *)

Running == {"handleTask", "withRetry", "start", "open", "writeInsert", "tearDown",
            "attemptReturn", "backoff", "wtdReturn", "handled"}

\* Number of invocations of function fn with task t, at either call site
CountCalls(fn, t) ==
  Cardinality({i \in 1..Len(calls) : calls[i].fn = fn /\ calls[i].task = t})

\* The invocations made through w.finishTaskCallBack, in order
TaskCalls == SelectSeq(calls, LAMBDA c : c.site = "task")

\* The files the running attempt has opened, in order
AttemptOpened == SelectSeq(opened, LAMBDA o : o.attempt = wtd.retryTime)

-----------------------------------------------------------------------------
(* C1 *)

\* C1: once g has been registered with setFinishTableCallBack, g has been
\* invoked exactly once for every finished task that is a TableData task,
\* was written without error and has ChunkIndex + 1 = TotalChunks, and
\* never for any other finished task.
C1_TableCallbackIffLastChunk ==
  registered.table = "g" =>
    \A i \in 1..Len(handled) :
      CountCalls("g", handled[i].task) =
        IF /\ handled[i].err = Nil
           /\ handled[i].task.type = "TableData"
           /\ handled[i].task.ChunkIndex + 1 = handled[i].task.TotalChunks
        THEN 1 ELSE 0

-----------------------------------------------------------------------------
(* C2 *)

\* C2: once f has been registered with setFinishTaskCallBack, whatever
\* other setter has been called, f has been invoked exactly once with the
\* task for every finished task whose handleTask returned nil and never for
\* a task whose handleTask returned an error.
C2_TaskCallbackOncePerTask ==
  registered.task = "f" =>
    \A i \in 1..Len(handled) :
      CountCalls("f", handled[i].task) = IF handled[i].err = Nil THEN 1 ELSE 0

-----------------------------------------------------------------------------
(* C3 *)

\* C3: each callback field of the Writer holds the function last given to
\* its own setter (the no-op of NewWriter if that setter was never called).
C3_DistinctRegistrations ==
  /\ w.finishTaskCallBack = registered.task
  /\ w.finishTableCallBack = registered.table

-----------------------------------------------------------------------------
(* C4 *)

\* A handleTask error is final: it belongs to the last task received, run
\* has stopped and returned this very error, and no callback was invoked
\* with the failed task.
C4_ErrorIsFinal ==
  \A i \in 1..Len(handled) :
    handled[i].err # Nil =>
      /\ i = Len(handled)
      /\ pc = "stopped"
      /\ runResult = handled[i].err
      /\ w.receivedTaskCount = i
      /\ \A j \in 1..Len(calls) : calls[j].task # handled[i].task

\* After run has returned nothing is received from the channel, no file is
\* written and no callback is invoked.
C4_NothingAfterReturn ==
  pc = "stopped" =>
    /\ UNCHANGED <<pc, runResult, w, task, files, metaFiles, opened, calls, handled>>
    /\ Len(taskStream') >= Len(taskStream)
    /\ SubSeq(taskStream', 1, Len(taskStream)) = taskStream

\* C4: when handleTask returns an error, run returns exactly that error
\* and stops: no queued task is received or handled afterwards, no file is
\* written afterwards, and no callback fires for the failed task or later.
C4_ErrorStopsRun == []C4_ErrorIsFinal /\ [][C4_NothingAfterReturn]_vars

\* C4 witness: run has returned the error of the first task while the
\* second task is still queued on the channel
C4_Witness ==
  /\ pc = "stopped"
  /\ runResult # Nil
  /\ Len(handled) = 1
  /\ taskStream = <<2>>

-----------------------------------------------------------------------------
(* C5 *)

\* C5: when the context was already done at the select that run executed
\* last, run has returned nil.
C5_CancelReturnsNil ==
  (pc = "stopped" /\ selectSawDone) => runResult = Nil

-----------------------------------------------------------------------------
(* C6 *)

\* C6: tasks are handled in the order of the channel (ids 1, 2, ...), the
\* task being handled is the next one and the only one received and not yet
\* finished, and the calls through finishTaskCallBack are, in order, the
\* tasks handled without error: the callback for task i has fired whenever
\* task i+1 is being handled.
C6_HandledInOrder ==
  /\ \A i \in 1..Len(handled) : handled[i].task.id = i
  /\ pc \in Running => (task.id = Len(handled) + 1 /\ w.receivedTaskCount = task.id)
  /\ pc \notin Running => w.receivedTaskCount = Len(handled)
  /\ Len(TaskCalls) = Cardinality({i \in 1..Len(handled) : handled[i].err = Nil})
  /\ \A i \in 1..Len(TaskCalls) : TaskCalls[i].task = handled[i].task
  /\ pc \in Running => Len(TaskCalls) = Len(handled)

\* C6 witness: the second task is being handled after the first one was
\* handled and its callback invoked
C6_Witness ==
  /\ pc = "handleTask"
  /\ task.id = 2
  /\ Len(handled) = 1
  /\ Len(TaskCalls) = 1

-----------------------------------------------------------------------------
(* C7 *)

\* C7: when WriteTableData returns nil from its second attempt, the
\* connection was rebuilt exactly once, for attempt 2; the files of attempt
\* 2 start again at file index zero; and every file attempt 1 wrote for the
\* chunk was opened again by attempt 2, so that none is left beside the
\* files of attempt 2.
C7_OneSetOfFiles ==
  (pc = "wtdReturn" /\ wtd.err = Nil /\ wtd.retryTime = 2) =>
    /\ Len(rebuilds) = 1
    /\ rebuilds[1].attempt = 2
    /\ \A i \in 1..Len(AttemptOpened) : AttemptOpened[i].index = i - 1
    /\ \A f \in files :
         (f.task = task.id /\ f.attempt = 1) =>
           \E i \in 1..Len(AttemptOpened) : AttemptOpened[i].name = f.name

-----------------------------------------------------------------------------
(* C10 *)

\* C10: in every attempt the files are opened with file indices 0, 1, ...,
\* every file opened before the last one had bytes written, and no name is
\* requested from the namer beyond the file to open next; an attempt that
\* returns nil under a size bound has opened k non-empty files and then
\* exactly one empty file, indices 0..k, and requested no further name.
C10_EmptyFileEndsSplit ==
  (pc \in {"open", "writeInsert", "tearDown", "attemptReturn"} /\ ir.deferClose) =>
    LET o == AttemptOpened
    IN  /\ \A i \in 1..Len(o) : o[i].index = i - 1
        /\ \A i \in 1..(Len(o) - 1) : o[i].written
        /\ Len(names) = IF pc = "open" \/ wtd.err.site = "render"
                         THEN Len(o) + 1 ELSE Len(o)
        /\ namer.FileIndex = Len(names)
        /\ (pc = "attemptReturn" /\ wtd.err = Nil /\ conf.FileSize) =>
             (Len(o) >= 1 /\ ~o[Len(o)].written)

\* C10 witness: an attempt under a size bound returns nil after one
\* non-empty file and one empty file
C10_Witness ==
  /\ pc = "attemptReturn"
  /\ wtd.err = Nil
  /\ conf.FileSize
  /\ Len(AttemptOpened) = 2
  /\ AttemptOpened[1].written
  /\ ~AttemptOpened[2].written

-----------------------------------------------------------------------------
(* C11 *)

\* C11: with no file-size bound an attempt never opens a second file nor
\* calls the encoder a second time, and an attempt that returns nil has
\* opened exactly one file and called the encoder exactly once on it,
\* whether the encoder wrote bytes or not and with or without a row limit.
C11_OneFileWithoutSizeBound ==
  (~conf.FileSize /\ pc \in {"open", "writeInsert", "tearDown", "attemptReturn"}
     /\ ir.deferClose) =>
    LET o == AttemptOpened
    IN  /\ Len(o) <= 1
        /\ (pc = "attemptReturn" /\ wtd.err = Nil) =>
             (Len(o) = 1 /\ o[1].encoded /\ o[1].index = 0)

\* C11 witness: with a row limit and no size bound, an attempt returns nil
\* after the encoder wrote bytes into its one file
C11_Witness ==
  /\ pc = "attemptReturn"
  /\ wtd.err = Nil
  /\ ~conf.FileSize
  /\ conf.Rows
  /\ Len(AttemptOpened) = 1
  /\ AttemptOpened[1].written

-----------------------------------------------------------------------------
(* C16 *)

\* C16: when an attempt that called ir.Start has returned, ir.Close has
\* been called in that attempt, whether Start failed, the writing failed
\* or the attempt succeeded; and the row source is not started when an
\* attempt is about to call Start.
C16_CloseOnEveryExit ==
  /\ (pc \in {"backoff", "wtdReturn"} /\ ir.startCalled) => ir.closeCalled
  /\ pc = "start" => ~ir.started

-----------------------------------------------------------------------------
(* C17 *)

\* C17: a file stream is open only between its opening and the tearDown
\* that follows the encoder call, so every file opened earlier has been
\* released after its encoder call before the next file is opened and
\* before writeTableData returns, and at most one stream is open; no file
\* is opened after a file on which the encoder failed, and the attempt
\* returns the encoder's error.
C17_StreamReleased ==
  /\ fileWriter.open => pc \in {"writeInsert", "tearDown"}
  /\ \A i \in 1..Len(opened) :
       /\ opened[i].released => opened[i].encoded
       /\ ~opened[i].released =>
            /\ i = Len(opened)
            /\ pc \in {"writeInsert", "tearDown"}
            /\ fileWriter.open
            /\ fileWriter.name = opened[i].name
  /\ \A i \in 1..(Len(AttemptOpened) - 1) : ~AttemptOpened[i].failed
  /\ (pc = "attemptReturn" /\ Len(AttemptOpened) > 0
        /\ AttemptOpened[Len(AttemptOpened)].failed) =>
       wtd.err = Err("encode", task.id, wtd.retryTime)

\* C17 witness: the encoder failed on the second file of an attempt; both
\* files have been released and the attempt is returning
C17_Witness ==
  /\ pc = "attemptReturn"
  /\ Len(AttemptOpened) = 2
  /\ AttemptOpened[1].released
  /\ AttemptOpened[2].failed
  /\ AttemptOpened[2].released
  /\ ~fileWriter.open

-----------------------------------------------------------------------------
(* C18 *)

\* C18: whenever a Writer invoked the table-completion callback for the
\* table, every chunk of the table, indices 0 .. TotalChunks-1, had been
\* written without error by then.
C18_TableCallbackMeansAllChunks ==
  pc = "pool" =>
    \A i \in 1..Len(calls) :
      calls[i].site = "table" =>
        \A c \in 0..(calls[i].task.TotalChunks - 1) : c \in calls[i].written

-----------------------------------------------------------------------------
(* C19 *)

InWriteTableData == {"withRetry", "start", "open", "writeInsert", "tearDown",
                     "attemptReturn", "backoff"}

\* C19: outside a WriteTableData call the Writer holds the connection most
\* recently obtained; attempt 1 of every chunk starts the row source on
\* that connection; and every rebuild is passed the connection the
\* preceding attempt started the row source on.
C19_WriterHoldsLatestConn ==
  /\ pc \notin InWriteTableData => w.conn = lastConn
  /\ (ir.startCalled /\ wtd.retryTime = 1) => ir.conn = lastConn
  /\ \A i \in 1..Len(rebuilds) : rebuilds[i].arg = rebuilds[i].used

-----------------------------------------------------------------------------
(* C12 *)

HoldsConn == ctl.kind \in {"flush", "lock"}

\* C12: on a flush or lock controller, once a TearDown call has returned,
\* with or without an error from the unlock statement and however many
\* TearDown calls follow, the controller holds no connection, every later
\* PingContext call has returned the already-closed error, and no ping was
\* ever executed on a closed connection.
C12_PingAfterTearDown ==
  HoldsConn =>
    /\ Returned("TearDown") => ctl.conn = NilConn
    /\ \A i, j \in 1..Len(rets) :
         (i < j /\ rets[i].op = "TearDown" /\ rets[j].op = "PingContext") =>
           rets[j].err = ErrClosed
    /\ \A k \in 1..Len(stmts) : stmts[k].sql = "ping" => stmts[k].open

\* C12 witness: a TearDown whose unlock statement failed, a second
\* TearDown, then a PingContext that returned the already-closed error
C12_Witness ==
  /\ HoldsConn
  /\ Len(rets) = 4
  /\ rets[2] = Ret("TearDown", ErrExec)
  /\ rets[3].op = "TearDown"
  /\ rets[4] = Ret("PingContext", ErrClosed)

-----------------------------------------------------------------------------
(* C13 *)

FlushStmts == SelectSeq(stmts, LAMBDA s : s.sql = "flush")

\* C13: Setup of a flush controller for TiDB has returned an error and no
\* flush-and-lock statement was executed; for every other server type Setup
\* has executed the statement exactly once, on the controller's connection,
\* and returned that statement's result.  No such statement is executed
\* outside Setup.
C13_FlushSetupFailsFast ==
  ctl.kind = "flush" =>
    /\ ~Returned("Setup") => FlushStmts = <<>>
    /\ \A i \in 1..Len(rets) :
         rets[i].op = "Setup" =>
           IF ctl.serverType = ServerTypeTiDB
           THEN rets[i].err # ErrNil /\ FlushStmts = <<>>
           ELSE /\ Len(FlushStmts) = 1
                /\ FlushStmts[1].conn = session.handedOut
                /\ FlushStmts[1].open
                /\ rets[i].err = FlushStmts[1].err

\* C13 witness: Setup of a flush controller for TiDB has returned
C13_Witness ==
  /\ ctl.kind = "flush"
  /\ ctl.serverType = ServerTypeTiDB
  /\ Returned("Setup")
  /\ stmts = <<>>

-----------------------------------------------------------------------------
(* C14 *)

InvalidOption ==
  conf.Consistency \notin {consistencyTypeFlush, consistencyTypeLock,
                           consistencyTypeSnapshot, consistencyTypeNone}
SnapshotUnsupported ==
  conf.Consistency = consistencyTypeSnapshot /\ conf.ServerType # ServerTypeTiDB
FlushUnsupported ==
  conf.Consistency = consistencyTypeFlush /\ conf.ServerType = ServerTypeTiDB

\* NewConsistencyController has returned, having got its connection
Constructed == Len(rets) >= 1 /\ rets[1].err # ErrConn

\* C14 as claimed: NewConsistencyController returns an error and no
\* controller exactly when the consistency setting is a configuration
\* error: an invalid option, snapshot on a server without snapshot reads,
\* or a mode unsupported for the server type (flush on TiDB).
C14_ConfigErrorsAtConstruction ==
  Constructed =>
    ((InvalidOption \/ SnapshotUnsupported \/ FlushUnsupported)
       <=> (rets[1].err # ErrNil /\ ctl = NoController))

\* C14 amended: NewConsistencyController returns an error and no
\* controller, so that no Setup can follow, exactly for an invalid option
\* and for snapshot on a server that is not TiDB; for flush on TiDB it
\* returns a controller without error, and the error is returned by that
\* controller's Setup, before any statement is executed.
C14_ConfigErrorsBeforeData ==
  Constructed =>
    /\ (InvalidOption \/ SnapshotUnsupported)
         <=> (rets[1].err # ErrNil /\ ctl = NoController)
    /\ rets[1].err # ErrNil => (Len(rets) = 1 /\ stmts = <<>>)
    /\ FlushUnsupported =>
         /\ rets[1].err = ErrNil
         /\ ctl.kind = "flush"
         /\ \A i \in 1..Len(rets) :
              rets[i].op = "Setup" => rets[i].err = ErrFlushTiDB
         /\ \A k \in 1..Len(stmts) : stmts[k].sql # "flush"

\* C14 witness: snapshot asked of a server that is not TiDB, and the
\* constructor has returned its error
C14_Witness ==
  /\ SnapshotUnsupported
  /\ rets = <<Ret("New", ErrSnapshot)>>
  /\ ctl = NoController

-----------------------------------------------------------------------------
(* C15 *)

LockStmts == SelectSeq(stmts, LAMBDA s : s.sql = "lock")

\* C15: every lock statement names exactly the configured tables that are
\* not on the block list when its attempt starts; the statement after a
\* failed one does not name the table the failed one failed on and is a
\* different statement; and Setup has returned nil only after a lock
\* statement succeeded, which is then the last one and the only one.
C15_BlockListNarrows ==
  ctl.kind = "lock" =>
    LET l == LockStmts
    IN  /\ \A k \in 1..Len(l) : l[k].tables = ctl.allTables \ l[k].blocked
        /\ \A k \in 1..(Len(l) - 1) :
             /\ l[k].err # ErrNil
             /\ l[k].failedTable \in l[k].tables
             /\ l[k].failedTable \in l[k + 1].blocked
             /\ l[k].failedTable \notin l[k + 1].tables
             /\ l[k + 1].tables # l[k].tables
        /\ \A i \in 1..Len(rets) :
             (rets[i].op = "Setup" /\ rets[i].err = ErrNil) =>
               (Len(l) >= 1 /\ l[Len(l)].err = ErrNil)

\* C15 witness: the first lock statement failed on B, the second one names
\* A and C only and succeeded, and Setup has returned nil
C15_Witness ==
  /\ ctl.kind = "lock"
  /\ Len(LockStmts) = 2
  /\ LockStmts[1].failedTable = "B"
  /\ LockStmts[2].tables = {"A", "C"}
  /\ rets[Len(rets)] = Ret("Setup", ErrNil)

-----------------------------------------------------------------------------
(* C20 *)

\* C20: after NewConsistencyController has returned, every connection it
\* acquired from the session and that is still open is held by the
\* returned flush or lock controller; after a None controller or an error
\* was returned no connection it acquired is open.
C20_NoOrphanConn ==
  (Len(rets) >= 1 /\ pc \in {"ctl.ready", "ctl.failed", "ctl.lockAttempt", "ctl.lockBackoff"}) =>
    \A c \in session.open : HoldsConn /\ ctl.conn = c

-----------------------------------------------------------------------------
(* Reading a rendered index back *)

RECURSIVE Val(_)
Val(d) == IF d = <<>> THEN 0 ELSE 10 * Val(SubSeq(d, 1, Len(d) - 1)) + d[Len(d)]

\* The index rendered into a data file name <<DB, Table, Index, extension>>
IndexIn(name) == name[3]

HasChunk == conf.Rows \/ ~conf.FileSize
HasFile == conf.FileSize

\* The chunk-index and file-index components of a rendered index
ChunkPart(idx) == SubSeq(idx, 1, ChunkWidth)
FilePart(idx) == IF HasChunk THEN SubSeq(idx, ChunkWidth + 1, Len(idx)) ELSE idx

Distinct(seq) == \A i, j \in 1..Len(seq) : i # j => seq[i] # seq[j]

-----------------------------------------------------------------------------
(* C8 *)

\* C8 as claimed: under every combination of the two switches the names
\* NextName has returned are pairwise distinct, the file-index component of
\* the k-th name is k-1, and the chunk index of the namer is the one it was
\* built with.
C8_DistinctNamesAlways ==
  (pc = "namer" /\ conf.tmplOK) =>
    /\ Distinct(names)
    /\ HasFile => \A k \in 1..Len(names) : Val(FilePart(IndexIn(names[k]))) = k - 1
    /\ namer.ChunkIndex = task.ChunkIndex

\* C8 amended: every NextName call advances FileIndex by exactly one and
\* never changes ChunkIndex; when the template renders and the size limit is
\* on, the names are pairwise distinct and the k-th carries file index k-1;
\* when the size limit is off the index holds the chunk index alone and all
\* names of the namer are the same name.
C8_NextNameAdvances ==
  pc = "namer" =>
    /\ namer.FileIndex = Len(names)
    /\ namer.ChunkIndex = task.ChunkIndex
    /\ (conf.tmplOK /\ HasFile) =>
         /\ Distinct(names)
         /\ \A k \in 1..Len(names) : Val(FilePart(IndexIn(names[k]))) = k - 1
    /\ (conf.tmplOK /\ HasChunk) =>
         \A k \in 1..Len(names) : Val(ChunkPart(IndexIn(names[k]))) = task.ChunkIndex
    /\ (conf.tmplOK /\ ~HasFile) =>
         \A k \in 1..Len(names) : names[k] = names[1]

\* C8 witness: three names from one namer with the size limit on
C8_Witness ==
  pc = "namer" /\ conf.tmplOK /\ conf.FileSize /\ Len(names) >= 3
  /\ task.ChunkIndex >= 2

-----------------------------------------------------------------------------
(* C9 *)

\* C9: in every state of a namer, after any number of NextName calls,
\* Index() is the 9-digit chunk index followed by the 4-digit file index
\* when both switches are on, the 9-digit file index alone when only the
\* size limit is on, and the 9-digit chunk index alone otherwise.
C9_IndexFormat ==
  pc = "namer" =>
    LET idx == Index(namer)
    IN  IF conf.Rows /\ conf.FileSize
        THEN /\ Len(idx) = ChunkWidth + FileWidth
             /\ Val(SubSeq(idx, 1, ChunkWidth)) = namer.ChunkIndex
             /\ Val(SubSeq(idx, ChunkWidth + 1, ChunkWidth + FileWidth)) = namer.FileIndex
        ELSE IF conf.FileSize
        THEN Len(idx) = ChunkWidth /\ Val(idx) = namer.FileIndex
        ELSE Len(idx) = ChunkWidth /\ Val(idx) = namer.ChunkIndex

\* C9 witness: a namer with both switches on that has been advanced twice,
\* its chunk index different from its file index
C9_Witness ==
  pc = "namer" /\ conf.Rows /\ conf.FileSize /\ namer.FileIndex = 2
  /\ namer.ChunkIndex = 3

====
